---- MODULE Spec2Model ----
(***************************************************************************)
(* The incremental n-gram language-model scorer of                         *)
(* speechbrain/decoders/language_model.py: LanguageModel over a kenlm      *)
(* backend, driven by a beam-search caller that keeps the states it is     *)
(* handed back.                                                            *)
(*                                                                         *)
(* Numbers.  Backend log10 scores and unk_score_offset are integers (1 =   *)
(* 1.0); alpha and beta are counted in halves (1 = 0.5, 3 = 1.5).  A       *)
(* returned score is kept as the exact numerator of the fraction           *)
(*      alpha * lm_score / log10(e) + beta                                 *)
(* over the fixed denominator 2 * Log10E, with log10(e) = Log10E / 10000.  *)
(***************************************************************************)
EXTENDS Integers, Sequences, FiniteSets, TLC

\* ------------------------------------------------------------------ bounds
\* Raw kenlm.State objects alive at once (one per state held by the caller).
MaxObjs == 3
\* Order of the backend n-gram model: a state keeps Order - 1 words.
Order == 3
\* Longest partial token passed to score_partial_token.
MaxPartialLen == 8
\* Calls of score that concurrent workers start, all workers together.
MaxCalls == 2
\* Largest chunk_size and left_context_size of a DCTConfig.
MaxChunkSize == 8
MaxLeftContext == 6
\* Most keyword arguments in one call of an ArgumentMapper.
MaxKwargs == 2
\* Attribute accesses made on a lazy module.
MaxAccesses == 4

\* ------------------------------------------------------- program constants
\* math.log10(math.e) = 0.4342944819..., in units of 1/10000.
Log10E == 4343
\* Defaults of LanguageModel.__init__ (alpha and beta in halves).
DefaultAlpha == 1
DefaultBeta == 3
DefaultUnkScoreOffset == -10
\* score_partial_token: the length above which the penalty grows, and the
\* divisor of the growth.
PartialLenLimit == 6
\* _prepare_unigram_set: the number of entries below which a vocabulary is
\* reported as small.
SmallVocabulary == 1000

\* ------------------------------------------------------------------ inputs
\* A word is the sequence of its characters; the sentence markers are words of
\* one symbol.
Cat == <<"c", "a", "t">>
Dog == <<"d", "o", "g">>
Zzz == <<"z", "z", "z">>
Words == {Cat, Dog}
EOS == <<"</s>">>
BOS == <<"<s>">>

\* The backends a LanguageModel is built on: an n-gram model that knows two
\* words, and two stubs that answer -2.0 for every transition, one that knows
\* "cat" and one that knows no word.
Backends ==
  { [kind |-> "ngram", vocab |-> {Cat, Dog}],
    [kind |-> "stub",  vocab |-> {Cat}],
    [kind |-> "stub",  vocab |-> {}] }

\* The unigrams argument: None, or a list of words, kept as the set of its
\* words and the number of its entries.  Unigrams(S) lists each word of S
\* once; UnigramList(S, n) has n entries, some words repeated.
NoUnigrams == [given |-> FALSE, words |-> {}, len |-> 0]
Unigrams(S) == [given |-> TRUE, words |-> S, len |-> Cardinality(S)]
UnigramList(S, n) == [given |-> TRUE, words |-> S, len |-> n]
UnigramArgs == {NoUnigrams, Unigrams({Cat, Zzz})}

Alphas == {-1, DefaultAlpha}
Betas == {0, DefaultBeta}
UnkScoreOffsets == {DefaultUnkScoreOffset, 5}

\* The two scorers: the one under test, and a second one built with the
\* default arguments on the same backend.
Insts == {1, 2}

\* ----------------------------------------------------------------- backend
\* kenlm.State: what a raw state object holds.  A fresh kenlm.State() is
\* uninitialized until the backend writes it.
Uninit == <<<<"uninit">>>>

LastN(s, n) == IF Len(s) <= n THEN s ELSE SubSeq(s, Len(s) - n + 1, Len(s))

\* `word in kenlm_model`
InModel(kenlm_model, word) == word \in kenlm_model.vocab

\* The context the backend writes to the out state of a transition.
NextContext(kenlm_model, ctx, word) ==
  IF InModel(kenlm_model, word) \/ word = EOS
    THEN LastN(Append(ctx, word), Order - 1)
    ELSE << >>

\* The base-10 log-probability of a transition.
LogProb(kenlm_model, ctx, word) ==
  IF kenlm_model.kind = "stub" THEN -2
  ELSE IF word = EOS THEN -(1 + Len(ctx))
  ELSE IF ~InModel(kenlm_model, word) THEN -6
  ELSE IF ctx = << >> THEN -4
  ELSE IF ctx[Len(ctx)] = word THEN -3
  ELSE IF ctx[Len(ctx)] = BOS THEN -1
  ELSE -2

\* Memory: the raw state objects (heap) and the number of BaseScore queries
\* the backend has answered.
Mem(heap, queries) == [heap |-> heap, queries |-> queries]

\* kenlm_model.BaseScore(in_state, word, out_state): reads in_state, writes
\* out_state, returns the score.
BaseScore(m, kenlm_model, in_state, word, out_state) ==
  LET ctx == m.heap[in_state]
  IN [mem   |-> Mem([m.heap EXCEPT ![out_state] = NextContext(kenlm_model, ctx, word)],
                    m.queries + 1),
      score |-> LogProb(kenlm_model, ctx, word)]

\* kenlm_model.BeginSentenceWrite(state)
BeginSentenceWrite(m, state) == Mem([m.heap EXCEPT ![state] = <<BOS>>], m.queries)

\* kenlm_model.NullContextWrite(state)
NullContextWrite(m, state) == Mem([m.heap EXCEPT ![state] = << >>], m.queries)

\* ------------------------------------------------------------ KenlmState
KenlmState(state) == [type |-> "KenlmState", state |-> state]

isinstance_KenlmState(x) == x.type = "KenlmState"

\* ---------------------------------------------------------- construction
\* What _prepare_unigram_set hands back: the set, the warnings it logged, and
\* the exception it ended with, if any.
Prepared(unigram_set, warnings, raised) ==
  [unigram_set |-> unigram_set, warnings |-> warnings, raised |-> raised]

\* The warning logged, or nothing.
WarnIf(cond, warning) == IF cond THEN <<warning>> ELSE << >>

\* A slip in _prepare_unigram_set: the membership filter is left out.
_prepare_unigram_set_unfiltered(unigrams, kenlm_model) ==
  Prepared(unigrams.words,
           WarnIf(unigrams.len < SmallVocabulary, "small_vocabulary")
             \o WarnIf(unigrams.len # 0
                         /\ 10 * Cardinality(unigrams.words) < unigrams.len,
                       "vocabulary_mismatch"),
           "none")

\* A slip in _prepare_unigram_set: retained_fraction <= 0.1.
_prepare_unigram_set_mismatch_at_tenth(unigrams, kenlm_model) ==
  LET unigram_set == {t \in unigrams.words : InModel(kenlm_model, t)}
  IN Prepared(unigram_set,
              WarnIf(unigrams.len < SmallVocabulary, "small_vocabulary")
                \o WarnIf(unigrams.len # 0
                            /\ 10 * Cardinality(unigram_set) <= unigrams.len,
                          "vocabulary_mismatch"),
              "none")

\* A slip in _prepare_unigram_set: the small-vocabulary test counts the
\* retained words.
_prepare_unigram_set_small_by_retained(unigrams, kenlm_model) ==
  LET unigram_set == {t \in unigrams.words : InModel(kenlm_model, t)}
  IN Prepared(unigram_set,
              WarnIf(Cardinality(unigram_set) < SmallVocabulary, "small_vocabulary")
                \o WarnIf(unigrams.len # 0
                            /\ 10 * Cardinality(unigram_set) < unigrams.len,
                          "vocabulary_mismatch"),
              "none")

\* A slip in _prepare_unigram_set: a low retained fraction raises.
_prepare_unigram_set_mismatch_raises(unigrams, kenlm_model) ==
  LET unigram_set == {t \in unigrams.words : InModel(kenlm_model, t)}
      mismatch    == unigrams.len # 0
                     /\ 10 * Cardinality(unigram_set) < unigrams.len
  IN Prepared(unigram_set,
              WarnIf(unigrams.len < SmallVocabulary, "small_vocabulary"),
              IF mismatch THEN "ValueError" ELSE "none")

\* _prepare_unigram_set: the offered unigrams the backend knows, and the
\* warnings logged on the way.  retained_fraction < 0.1 is compared exactly:
\* len(unigram_set) / len(unigrams) < 0.1 iff 10 * len(unigram_set) <
\* len(unigrams), and retained_fraction is 1.0 for an empty list.
_prepare_unigram_set(unigrams, kenlm_model) ==
  LET unigram_set == {t \in unigrams.words : InModel(kenlm_model, t)}
  IN Prepared(unigram_set,
              WarnIf(unigrams.len < SmallVocabulary, "small_vocabulary")
                \o WarnIf(unigrams.len # 0
                            /\ 10 * Cardinality(unigram_set) < unigrams.len,
                          "vocabulary_mismatch"),
              "none")

\* The LanguageModel object.
Object(kenlm_model, unigram_set, char_trie, alpha, beta, unk_score_offset, score_boundary) ==
  [kenlm_model      |-> kenlm_model,
   unigram_set      |-> unigram_set,
   char_trie        |-> char_trie,
   alpha            |-> alpha,
   beta             |-> beta,
   unk_score_offset |-> unk_score_offset,
   score_boundary   |-> score_boundary]

\* A slip in LanguageModel.__init__: `if not unigrams` instead of
\* `if unigrams is None`.
LanguageModel_empty_as_none(kenlm_model, unigrams, alpha, beta, unk_score_offset, score_boundary) ==
  IF ~unigrams.given \/ unigrams.len = 0
    THEN [self |-> Object(kenlm_model, {}, [present |-> FALSE, keys |-> {}],
                            alpha, beta, unk_score_offset, score_boundary),
          warnings |-> <<"no_unigrams">>,
          raised |-> "none"]
    ELSE LET r == _prepare_unigram_set(unigrams, kenlm_model)
         IN [self |-> Object(kenlm_model, r.unigram_set,
                               [present |-> TRUE, keys |-> r.unigram_set],
                               alpha, beta, unk_score_offset, score_boundary),
             warnings |-> r.warnings,
             raised |-> r.raised]

\* LanguageModel.__init__: the object built, the warnings logged, and the
\* exception that ended the construction, if any (no object is built then).
LanguageModel(kenlm_model, unigrams, alpha, beta, unk_score_offset, score_boundary) ==
  IF ~unigrams.given
    THEN [self |-> Object(kenlm_model, {}, [present |-> FALSE, keys |-> {}],
                            alpha, beta, unk_score_offset, score_boundary),
          warnings |-> <<"no_unigrams">>,
          raised |-> "none"]
    ELSE LET r == _prepare_unigram_set(unigrams, kenlm_model)
         IN [self |-> Object(kenlm_model, r.unigram_set,
                               [present |-> TRUE, keys |-> r.unigram_set],
                               alpha, beta, unk_score_offset, score_boundary),
             warnings |-> r.warnings,
             raised |-> r.raised]

\* ----------------------------------------------------------------- scorer
\* A slip in _get_empty_lm_state: one scratch state is allocated once and
\* handed out again on every later call.
_get_empty_lm_state_scratch(m) ==
  IF Len(m.heap) < 2 THEN Mem(Append(m.heap, Uninit), m.queries) ELSE m

\* _get_empty_lm_state: a new raw state object; its address is the new
\* length of the heap.
_get_empty_lm_state(m) == Mem(Append(m.heap, Uninit), m.queries)

\* A slip in the final combination: beta is added before the scaling.
Combine_beta_scaled(alpha, lm_score, beta) == alpha * (2 * lm_score + beta) * 5000

\* alpha * lm_score * 1.0 / math.log10(math.e) + beta, as the numerator over
\* 2 * Log10E.
Combine(alpha, lm_score, beta) == alpha * lm_score * 10000 + beta * Log10E

\* A slip in get_start_state: score_boundary is not consulted.
get_start_state_always_bos(m, self) ==
  LET m1 == _get_empty_lm_state(m)
      start_state == Len(m1.heap)
  IN [mem |-> BeginSentenceWrite(m1, start_state), state |-> KenlmState(start_state)]

\* LanguageModel.get_start_state
get_start_state(m, self) ==
  LET m1 == _get_empty_lm_state(m)
      start_state == Len(m1.heap)
      m2 == IF self.score_boundary
              THEN BeginSentenceWrite(m1, start_state)
              ELSE NullContextWrite(m1, start_state)
  IN [mem |-> m2, state |-> KenlmState(start_state)]

\* A slip in _get_raw_end_score: the end-of-sentence transition is written
\* into the state it starts from.
_get_raw_end_score_in_place(m, self, start_state) ==
  IF self.score_boundary
    THEN LET r == BaseScore(m, self.kenlm_model, start_state, EOS, start_state)
         IN [mem |-> r.mem, score |-> r.score]
    ELSE [mem |-> m, score |-> 0]

\* A slip in _get_raw_end_score: score_boundary is not consulted.
_get_raw_end_score_always(m, self, start_state) ==
  LET m1 == _get_empty_lm_state(m)
      end_state == Len(m1.heap)
      r == BaseScore(m1, self.kenlm_model, start_state, EOS, end_state)
  IN [mem   |-> Mem(SubSeq(r.mem.heap, 1, Len(m.heap)), r.mem.queries),
      score |-> r.score]

\* LanguageModel._get_raw_end_score: the local end_state is released when
\* the method returns.
_get_raw_end_score(m, self, start_state) ==
  IF self.score_boundary
    THEN LET m1 == _get_empty_lm_state(m)
             end_state == Len(m1.heap)
             r == BaseScore(m1, self.kenlm_model, start_state, EOS, end_state)
         IN [mem   |-> Mem(SubSeq(r.mem.heap, 1, Len(m.heap)), r.mem.queries),
             score |-> r.score]
    ELSE [mem |-> m, score |-> 0]

\* A slip in the OOV test: `A and (B or C)`.
IsOOV_and_binds_last(self, word) ==
  /\ Cardinality(self.unigram_set) > 0
  /\ (word \notin self.unigram_set \/ ~InModel(self.kenlm_model, word))

\* A slip in the OOV test: an empty unigram set penalizes every word.
IsOOV_empty_set_penalized(self, word) ==
  \/ Cardinality(self.unigram_set) = 0
  \/ word \notin self.unigram_set
  \/ ~InModel(self.kenlm_model, word)

\* A slip in the OOV test: the backend is not asked.
IsOOV_unigram_set_only(self, word) ==
  Cardinality(self.unigram_set) > 0 /\ word \notin self.unigram_set

\* The OOV test of LanguageModel.score: `A and B or C` is (A and B) or C.
IsOOV(self, word) ==
  \/ (Cardinality(self.unigram_set) > 0 /\ word \notin self.unigram_set)
  \/ ~InModel(self.kenlm_model, word)

\* The type check of LanguageModel.score fails: nothing is allocated, asked
\* of the backend or returned.
score_wrong_type(m, prev_state) ==
  [raised |-> "AssertionError", mem |-> m, score |-> 0, state |-> prev_state]

\* A slip in score: the word is scored in place, on the state it extends.
score_transition_in_place(m, self, prev_state, word, is_last_word) ==
  LET end_state == prev_state.state
      r == BaseScore(m, self.kenlm_model, prev_state.state, word, end_state)
      lm_score1 == IF IsOOV(self, word)
                     THEN r.score + self.unk_score_offset
                     ELSE r.score
      e == IF is_last_word
             THEN _get_raw_end_score(r.mem, self, end_state)
             ELSE [mem |-> r.mem, score |-> 0]
  IN [raised |-> "none",
      mem    |-> e.mem,
      score  |-> Combine(self.alpha, lm_score1 + e.score, self.beta),
      state  |-> KenlmState(end_state)]

\* A slip in score: the unigram-set test and the backend test each add the
\* offset.
score_transition_offset_twice(m, self, prev_state, word, is_last_word) ==
  LET m1 == _get_empty_lm_state(m)
      end_state == Len(m1.heap)
      r == BaseScore(m1, self.kenlm_model, prev_state.state, word, end_state)
      off1 == IF Cardinality(self.unigram_set) > 0 /\ word \notin self.unigram_set
                THEN self.unk_score_offset ELSE 0
      off2 == IF ~InModel(self.kenlm_model, word) THEN self.unk_score_offset ELSE 0
      e == IF is_last_word
             THEN _get_raw_end_score(r.mem, self, end_state)
             ELSE [mem |-> r.mem, score |-> 0]
  IN [raised |-> "none",
      mem    |-> e.mem,
      score  |-> Combine(self.alpha, r.score + off1 + off2 + e.score, self.beta),
      state  |-> KenlmState(end_state)]

\* A slip in score: the word is scored from the newest state instead of
\* prev_state.
score_transition_from_newest(m, self, prev_state, word, is_last_word) ==
  LET m1 == _get_empty_lm_state(m)
      end_state == Len(m1.heap)
      r == BaseScore(m1, self.kenlm_model, Len(m.heap), word, end_state)
      lm_score1 == IF IsOOV(self, word)
                     THEN r.score + self.unk_score_offset
                     ELSE r.score
      e == IF is_last_word
             THEN _get_raw_end_score(r.mem, self, end_state)
             ELSE [mem |-> r.mem, score |-> 0]
  IN [raised |-> "none",
      mem    |-> e.mem,
      score  |-> Combine(self.alpha, lm_score1 + e.score, self.beta),
      state  |-> KenlmState(end_state)]

\* A slip in score: with is_last_word the state after the end-of-sentence
\* symbol is handed back.
score_transition_returns_boundary_state(m, self, prev_state, word, is_last_word) ==
  LET m1 == _get_empty_lm_state(m)
      end_state == Len(m1.heap)
      r == BaseScore(m1, self.kenlm_model, prev_state.state, word, end_state)
      lm_score1 == IF IsOOV(self, word)
                     THEN r.score + self.unk_score_offset
                     ELSE r.score
      e == IF is_last_word /\ self.score_boundary
             THEN BaseScore(r.mem, self.kenlm_model, end_state, EOS, end_state)
             ELSE [mem |-> r.mem, score |-> 0]
  IN [raised |-> "none",
      mem    |-> e.mem,
      score  |-> Combine(self.alpha, lm_score1 + e.score, self.beta),
      state  |-> KenlmState(end_state)]

\* LanguageModel.score, once prev_state has passed the type check.
score_transition(m, self, prev_state, word, is_last_word) ==
  LET m1 == _get_empty_lm_state(m)
      end_state == Len(m1.heap)
      r == BaseScore(m1, self.kenlm_model, prev_state.state, word, end_state)
      lm_score1 == IF IsOOV(self, word)
                     THEN r.score + self.unk_score_offset
                     ELSE r.score
      e == IF is_last_word
             THEN _get_raw_end_score(r.mem, self, end_state)
             ELSE [mem |-> r.mem, score |-> 0]
      lm_score2 == lm_score1 + e.score
  IN [raised |-> "none",
      mem    |-> e.mem,
      score  |-> Combine(self.alpha, lm_score2, self.beta),
      state  |-> KenlmState(end_state)]

\* A slip in score: no type check, so the first use of prev_state.state
\* fails with the interpreter's error instead.
score_unchecked(m, self, prev_state, word, is_last_word) ==
  IF ~isinstance_KenlmState(prev_state)
    THEN [raised |-> "AttributeError", mem |-> m, score |-> 0, state |-> prev_state]
    ELSE score_transition(m, self, prev_state, word, is_last_word)

\* A slip in score: the check names the raw kenlm.State type, so a KenlmState
\* is turned away.
score_checks_raw_type(m, self, prev_state, word, is_last_word) ==
  IF prev_state.type = "kenlm.State"
    THEN [raised |-> "AttributeError", mem |-> m, score |-> 0, state |-> prev_state]
    ELSE score_wrong_type(m, prev_state)

\* LanguageModel.score
score(m, self, prev_state, word, is_last_word) ==
  IF ~isinstance_KenlmState(prev_state)
    THEN score_wrong_type(m, prev_state)
    ELSE score_transition(m, self, prev_state, word, is_last_word)

\* ---------------------------------------------------------- partial tokens
IsPrefix(p, w) == Len(p) <= Len(w) /\ \A n \in 1..Len(p) : p[n] = w[n]

\* CharTrie.has_node(key): 0 when the trie has no node at key; otherwise 1
\* (HAS_VALUE) when key is a key of the trie, plus 2 (HAS_SUBTRIE) when the
\* node has children, that is when key is a strict prefix of a key.
has_node(char_trie, key) ==
  (IF key \in char_trie.keys THEN 1 ELSE 0)
  + (IF \E w \in char_trie.keys : Len(key) < Len(w) /\ IsPrefix(key, w)
       THEN 2 ELSE 0)

\* A slip in the prefix test: only complete words count
\* (has_node(...) == HAS_VALUE kept as in-vocabulary).
is_oov_complete_words_only(self, partial_token) ==
  IF ~self.char_trie.present THEN 1
  ELSE IF partial_token \in self.char_trie.keys THEN 0 ELSE 1

\* A slip in the prefix test: only nodes with children count
\* (has_node(...) & HAS_SUBTRIE).
is_oov_subtrie_only(self, partial_token) ==
  IF ~self.char_trie.present THEN 1
  ELSE IF has_node(self.char_trie, partial_token) >= 2 THEN 0 ELSE 1

\* score_partial_token, lines 166-169: is_oov.
is_oov(self, partial_token) ==
  IF ~self.char_trie.present THEN 1
  ELSE IF has_node(self.char_trie, partial_token) = 0 THEN 1 ELSE 0

\* A slip in score_partial_token: the penalty is scaled at every length.
score_partial_token_scales_all(self, partial_token) ==
  self.unk_score_offset * is_oov(self, partial_token) * Len(partial_token)

\* A slip in score_partial_token: the penalty is never scaled.
score_partial_token_unscaled(self, partial_token) ==
  self.unk_score_offset * is_oov(self, partial_token) * PartialLenLimit

\* A slip in score_partial_token: a missing trie counts as in-vocabulary.
score_partial_token_none_is_known(self, partial_token) ==
  LET oov == IF ~self.char_trie.present THEN 0 ELSE is_oov(self, partial_token)
  IN IF Len(partial_token) > PartialLenLimit
       THEN self.unk_score_offset * oov * Len(partial_token)
       ELSE self.unk_score_offset * oov * PartialLenLimit

\* LanguageModel.score_partial_token: the returned value, as the numerator
\* over PartialLenLimit.
score_partial_token(self, partial_token) ==
  LET unk_score == self.unk_score_offset * is_oov(self, partial_token)
  IN IF Len(partial_token) > PartialLenLimit
       THEN unk_score * Len(partial_token)
       ELSE unk_score * PartialLenLimit

\* ------------------------------------------------------------------ state
VARIABLES
  lm,       \* the LanguageModel instances, by instance
  heap,     \* the raw kenlm.State objects, by address
  queries,  \* BaseScore queries answered by the backend so far
  hyps,     \* the caller's hypotheses: each state handed back, with the call that made it
  last,     \* the latest call as the caller sees it: the operation, the type of
            \* the prev_state passed to it, and how it ended
  log,      \* the warnings logged so far, in order
  kenlm,    \* what the name kenlm is bound to in the module once it is imported
  calls,    \* by concurrent worker: where its call of score stands, its local
            \* variables, and the states it holds
  util      \* the object of a speechbrain.utils class under call (a DCTConfig,
            \* an ArgumentMapper, a LazyModule), << >> when there is none

vars == <<lm, heap, queries, hyps, last, log, kenlm, calls, util>>

\* What the calls on a utility object leave alone.
scorer == <<lm, heap, queries, hyps, kenlm, calls>>

\* `import kenlm` in the try of lines 30-36: the name is bound to the module,
\* or on ImportError a warning is logged and the name stays unbound.
ImportKenlm(installed) ==
  IF installed THEN [kenlm |-> "module", warnings |-> << >>]
  ELSE [kenlm |-> "unbound", warnings |-> <<"kenlm_not_installed">>]

\* How `kenlm.State()` in _get_empty_lm_state ends: with kenlm unbound it
\* raises NameError, which `except ImportError` does not catch.
_get_empty_lm_state_raised(kenlm_name) ==
  IF kenlm_name = "unbound" THEN "NameError" ELSE "none"

\* A slip in score: the word scored is added to the unigram set.
self_after_call_learns_word(self, op, arg) ==
  IF op = "score" THEN [self EXCEPT !.unigram_set = @ \cup {arg}] ELSE self

\* The attributes of the instance after get_start_state, score or
\* score_partial_token is called with arg: no method assigns to self, adds to
\* the unigram set or inserts into the trie.
self_after_call(self, op, arg) == self

\* A hypothesis made by get_start_state.
StartHyp(i, state) ==
  [state |-> state, by |-> i, parent |-> 0, word |-> << >>, is_last_word |-> FALSE,
   score |-> 0]

\* A hypothesis made by score from hypothesis k.
ScoredHyp(i, k, word, is_last_word, r) ==
  [state |-> r.state, by |-> i, parent |-> k, word |-> word,
   is_last_word |-> is_last_word, score |-> r.score]

\* What a caller can pass for prev_state: the states it holds, and objects
\* that are no KenlmState (None, a raw kenlm.State taken out of its wrapper).
NotAState == {[type |-> "NoneType", state |-> 0]} \cup
             {[type |-> "kenlm.State", state |-> a] : a \in DOMAIN heap}

\* The state after construction: instance 1 is built from the drawn arguments,
\* instance 2 with the default arguments on the same backend.
Constructed(b, u, al, be, off, sb) ==
  /\ LET first  == LanguageModel(b, u, al, be, off, sb)
         second == LanguageModel(b, NoUnigrams, DefaultAlpha, DefaultBeta,
                                 DefaultUnkScoreOffset, TRUE)
     IN /\ lm = [i \in Insts |-> IF i = 1 THEN first.self ELSE second.self]
        /\ log = first.warnings \o second.warnings
  /\ heap = << >>
  /\ queries = 0
  /\ hyps = << >>
  /\ last = [op |-> "init", prev_type |-> "", raised |-> "none"]
  /\ kenlm = ImportKenlm(TRUE).kenlm
  /\ calls = << >>
  /\ util = << >>

Init ==
  \E b \in Backends, u \in UnigramArgs, al \in Alphas, be \in Betas,
     off \in UnkScoreOffsets, sb \in BOOLEAN :
    Constructed(b, u, al, be, off, sb)

\* The caller asks instance i for a start state and keeps it, while it holds
\* fewer than limit states.
GetStartStateWithin(limit, i) ==
  /\ Len(heap) < limit
  /\ IF _get_empty_lm_state_raised(kenlm) # "none"
       THEN /\ last' = [op |-> "get_start_state", prev_type |-> "",
                        raised |-> _get_empty_lm_state_raised(kenlm)]
            /\ UNCHANGED <<heap, queries, hyps>>
       ELSE LET r == get_start_state(Mem(heap, queries), lm[i])
            IN /\ heap' = r.mem.heap
               /\ queries' = r.mem.queries
               /\ hyps' = Append(hyps, StartHyp(i, r.state))
               /\ last' = [op |-> "get_start_state", prev_type |-> "",
                           raised |-> "none"]
  /\ lm' = [lm EXCEPT ![i] = self_after_call(lm[i], "get_start_state", << >>)]
  /\ UNCHANGED <<log, kenlm, calls, util>>

GetStartState(i) == GetStartStateWithin(MaxObjs, i)

\* The caller extends hypothesis k with a word on instance i and keeps the
\* state it is handed back, while it holds fewer than limit states.
ScoreWithin(limit, i, k, word, is_last_word) ==
  /\ Len(heap) < limit
  /\ LET r == score(Mem(heap, queries), lm[i], hyps[k].state, word, is_last_word)
     IN /\ heap' = r.mem.heap
        /\ queries' = r.mem.queries
        /\ hyps' = IF r.raised = "none"
                     THEN Append(hyps, ScoredHyp(i, k, word, is_last_word, r))
                     ELSE hyps
        /\ last' = [op |-> "score", prev_type |-> hyps[k].state.type,
                    raised |-> r.raised]
  /\ lm' = [lm EXCEPT ![i] = self_after_call(lm[i], "score", word)]
  /\ UNCHANGED <<log, kenlm, calls, util>>

Score(i, k, word, is_last_word) == ScoreWithin(MaxObjs, i, k, word, is_last_word)

\* The caller passes something that is no KenlmState.
ScoreNotAState(i, x, word, is_last_word) ==
  /\ LET r == score(Mem(heap, queries), lm[i], x, word, is_last_word)
     IN /\ Len(r.mem.heap) <= MaxObjs
        /\ heap' = r.mem.heap
        /\ queries' = r.mem.queries
        /\ hyps' = IF r.raised = "none"
                     THEN Append(hyps, ScoredHyp(i, 0, word, is_last_word, r))
                     ELSE hyps
        /\ last' = [op |-> "score", prev_type |-> x.type, raised |-> r.raised]
  /\ lm' = [lm EXCEPT ![i] = self_after_call(lm[i], "score", word)]
  /\ UNCHANGED <<log, kenlm, calls, util>>

\* One caller, one scorer.
Next ==
  \/ GetStartState(1)
  \/ \E k \in DOMAIN hyps, w \in Words, f \in BOOLEAN : Score(1, k, w, f)
  \/ \E x \in NotAState, w \in Words, f \in BOOLEAN : ScoreNotAState(1, x, w, f)

Spec == Init /\ [][Next]_vars

\* Two scorers on one backend, and a caller that passes the states of either
\* to either.
InitShared ==
  \E b \in Backends, sb \in BOOLEAN :
    Constructed(b, NoUnigrams, DefaultAlpha, DefaultBeta, DefaultUnkScoreOffset, sb)

NextShared ==
  \/ \E i \in Insts : GetStartState(i)
  \/ \E i \in Insts, k \in DOMAIN hyps, w \in Words, f \in BOOLEAN : Score(i, k, w, f)
  \/ \E i \in Insts, x \in NotAState, w \in Words, f \in BOOLEAN :
       ScoreNotAState(i, x, w, f)

SpecShared == InitShared /\ [][NextShared]_vars

\* A decoding session on one scorer with one more state than in Spec, so that
\* calls fit between two calls that are compared.
InitSession ==
  \E b \in {m \in Backends : m.kind = "ngram"}, sb \in BOOLEAN :
    Constructed(b, Unigrams({Cat, Zzz}), DefaultAlpha, DefaultBeta,
                DefaultUnkScoreOffset, sb)

NextSession ==
  \/ GetStartStateWithin(MaxObjs + 1, 1)
  \/ \E k \in DOMAIN hyps, w \in Words, f \in BOOLEAN :
       ScoreWithin(MaxObjs + 1, 1, k, w, f)
  \/ \E x \in NotAState, w \in Words, f \in BOOLEAN : ScoreNotAState(1, x, w, f)

SpecSession == InitSession /\ [][NextSession]_vars

\* ------------------------------------------------- partial-token scoring
\* Words over two characters: two short ones, one longer than
\* PartialLenLimit, and one the backend does not know.
Ab == <<"a", "b">>
Abba == <<"a", "b", "b", "a">>
Bbbbbbbb == <<"b", "b", "b", "b", "b", "b", "b", "b">>
Baa == <<"b", "a", "a">>

CharBackends == { [kind |-> "ngram", vocab |-> {Ab, Abba, Bbbbbbbb}] }

CharUnigramArgs ==
  { NoUnigrams, Unigrams({}), Unigrams({Baa}),
    Unigrams({Ab, Abba, Bbbbbbbb, Baa}) }

PartialOffsets == {DefaultUnkScoreOffset, 0, 5}

\* The partial tokens a caller passes: every string of at most MaxPartialLen
\* characters.
Partials == UNION {[1..n -> {"a", "b"}] : n \in 0..MaxPartialLen}

InitPartial ==
  \E b \in CharBackends, u \in CharUnigramArgs, off \in PartialOffsets :
    Constructed(b, u, DefaultAlpha, DefaultBeta, off, TRUE)

\* The caller asks instance i for the score of a partial token.
ScorePartialToken(i, partial_token) ==
  /\ last' = [op |-> "score_partial_token", prev_type |-> "", raised |-> "none",
              partial |-> partial_token,
              score |-> score_partial_token(lm[i], partial_token)]
  /\ lm' = [lm EXCEPT ![i] = self_after_call(lm[i], "score_partial_token",
                                              partial_token)]
  /\ UNCHANGED <<heap, queries, hyps, log, kenlm, calls, util>>

NextPartial == \E p \in Partials : ScorePartialToken(1, p)

SpecPartial == InitPartial /\ [][NextPartial]_vars

\* ----------------------------------------------------------- construction
\* Large vocabularies are made of the words w1, w2, ...
Filler(n) == <<"w", ToString(n)>>
Fillers(n) == {Filler(k) : k \in 1..n}

\* A backend that knows three words and w1 .. w500.
BuildBackend == [kind |-> "ngram", vocab |-> {Cat, Ab, Abba} \cup Fillers(500)]

\* The vocabularies offered: none; an empty list; short lists of known words,
\* of an unknown word, and of one known word twenty times; and lists around
\* the two thresholds, of which the backend knows w1 .. w500.
BuildUnigramArgs ==
  { NoUnigrams, Unigrams({}), Unigrams({Cat, Ab}), Unigrams({Zzz}),
    UnigramList({Cat}, 20),
    Unigrams(Fillers(999)), Unigrams(Fillers(1000)),
    Unigrams(Fillers(5000)), Unigrams(Fillers(5001)),
    Unigrams(Fillers(10000)) }

\* The partial tokens asked of a newly built instance.
BuildPartials == {<< >>, Ab, <<"w">>, Bbbbbbbb}

InitBuild ==
  /\ lm = << >>
  /\ heap = << >>
  /\ queries = 0
  /\ hyps = << >>
  /\ last = [op |-> "init", prev_type |-> "", raised |-> "none"]
  /\ log = << >>
  /\ kenlm = ImportKenlm(TRUE).kenlm
  /\ calls = << >>
  /\ util = << >>

\* LanguageModel(kenlm_model, unigrams, ...): the instance is the caller's
\* only when the constructor returns.
Construct(kenlm_model, unigrams, alpha, beta, unk_score_offset, score_boundary) ==
  /\ lm = << >>
  /\ LET r == LanguageModel(kenlm_model, unigrams, alpha, beta,
                            unk_score_offset, score_boundary)
     IN /\ lm' = IF r.raised = "none" THEN <<r.self>> ELSE lm
        /\ log' = log \o r.warnings
        /\ last' = [op |-> "__init__", prev_type |-> "", raised |-> r.raised,
                    unigrams |-> unigrams]
  /\ UNCHANGED <<heap, queries, hyps, kenlm, calls, util>>

NextBuild ==
  \/ \E u \in BuildUnigramArgs :
       Construct(BuildBackend, u, DefaultAlpha, DefaultBeta,
                 DefaultUnkScoreOffset, TRUE)
  \/ 1 \in DOMAIN lm /\ GetStartState(1)
  \/ 1 \in DOMAIN lm /\ \E k \in DOMAIN hyps, w \in Words, f \in BOOLEAN :
                           Score(1, k, w, f)
  \/ 1 \in DOMAIN lm /\ \E p \in BuildPartials : ScorePartialToken(1, p)

SpecBuild == InitBuild /\ [][NextBuild]_vars

\* ------------------------------------------------------ without the backend
\* What a caller without kenlm can pass for kenlm_model: an object of its own
\* that answers `in`.
StandIn == [kind |-> "stub", vocab |-> {Cat}]

\* The module is imported with kenlm installed or not.
InitImport ==
  \E installed \in BOOLEAN :
    /\ lm = << >>
    /\ heap = << >>
    /\ queries = 0
    /\ hyps = << >>
    /\ last = [op |-> "init", prev_type |-> "", raised |-> "none"]
    /\ log = ImportKenlm(installed).warnings
    /\ kenlm = ImportKenlm(installed).kenlm
    /\ calls = << >>
    /\ util = << >>

\* A kenlm.Model can only be passed when kenlm is installed.
NextImport ==
  \/ \E b \in {BuildBackend, StandIn}, u \in {NoUnigrams, Unigrams({Cat, Ab})},
        sb \in BOOLEAN :
       /\ kenlm = "unbound" => b = StandIn
       /\ Construct(b, u, DefaultAlpha, DefaultBeta, DefaultUnkScoreOffset, sb)
  \/ 1 \in DOMAIN lm /\ GetStartState(1)
  \/ 1 \in DOMAIN lm /\ \E k \in DOMAIN hyps, w \in Words, f \in BOOLEAN :
                           Score(1, k, w, f)
  \/ 1 \in DOMAIN lm /\ \E x \in NotAState, w \in Words, f \in BOOLEAN :
                           ScoreNotAState(1, x, w, f)
  \/ 1 \in DOMAIN lm /\ \E p \in BuildPartials : ScorePartialToken(1, p)

SpecImport == InitImport /\ [][NextImport]_vars

\* ------------------------------------------------- speechbrain.utils.DCT
\* No LanguageModel is involved in the calls on a utility object.
NoScorer ==
  /\ lm = << >>
  /\ heap = << >>
  /\ queries = 0
  /\ hyps = << >>
  /\ kenlm = ImportKenlm(TRUE).kenlm
  /\ calls = << >>

\* Optional[...]: None, or a value.
None == [none |-> TRUE, value |-> 0]
Some(v) == [none |-> FALSE, value |-> v]

\* The dataclass DCTConfig.
DCTConfig(chunk_size, left_context_size) ==
  [class |-> "DCTConfig", chunk_size |-> chunk_size,
   left_context_size |-> left_context_size]

\* DCTConfig.is_infinite_left_context:
\* `return self.left_context_size is not None`
is_infinite_left_context(self) == ~self.left_context_size.none

\* A configuration with chunk_size > 0 and left_context_size None or >= 0.
InitDCT ==
  \E chunk_size \in 1..MaxChunkSize,
     left_context_size \in {None} \cup {Some(n) : n \in 0..MaxLeftContext} :
    /\ NoScorer
    /\ util = DCTConfig(chunk_size, left_context_size)
    /\ log = << >>
    /\ last = [op |-> "init", prev_type |-> "", raised |-> "none"]

\* The caller asks the configuration whether its left context is infinite.
IsInfiniteLeftContext ==
  /\ last' = [op |-> "is_infinite_left_context", prev_type |-> "",
              raised |-> "none", returned |-> is_infinite_left_context(util)]
  /\ UNCHANGED <<scorer, log, util>>

NextDCT == IsInfiniteLeftContext

SpecDCT == InitDCT /\ [][NextDCT]_vars

\* -------------------------------------------- speechbrain.utils.wrappers
\* A dict: its items <<key, value>> in insertion order, no key twice.
Keys(d) == {d[n][1] : n \in DOMAIN d}
Get(d, key) == d[CHOOSE n \in DOMAIN d : d[n][1] = key][2]

\* d[key] = value
dict_set(d, key, value) ==
  IF key \in Keys(d)
    THEN [n \in DOMAIN d |-> IF d[n][1] = key THEN <<key, value>> ELSE d[n]]
    ELSE Append(d, <<key, value>>)

\* d.update(items)
RECURSIVE dict_update(_, _)
dict_update(d, items) ==
  IF items = << >> THEN d
  ELSE dict_update(dict_set(d, Head(items)[1], Head(items)[2]), Tail(items))

\* The values passed as arguments: integers, and dicts of integers.
IntVal(n) == [dict |-> FALSE, n |-> n, items |-> << >>]
DictVal(d) == [dict |-> TRUE, n |-> 0, items |-> d]

\* A value of key_mappings: a new name, or None.
Renamed(name) == [none |-> FALSE, value |-> name]
Removed == [none |-> TRUE, value |-> ""]

\* The wrapped callable: it accepts any arguments and returns what it was
\* called with.
function(args, kwargs) == [args |-> args, kwargs |-> kwargs]

\* ArgumentMapper.__init__: key_mappings first, then None for each of
\* remove_keys.
ArgumentMapper(remove_keys, key_mappings) ==
  [class |-> "ArgumentMapper",
   key_mappings |->
     dict_update(dict_update(<< >>, key_mappings),
                 [n \in DOMAIN remove_keys |-> <<remove_keys[n], Removed>>])]

\* self.key_mappings.get(name, name)
key_mappings_get(self, name) ==
  IF name \in Keys(self.key_mappings) THEN Get(self.key_mappings, name)
  ELSE Renamed(name)

\* The dict comprehension of transform_kwargs, item by item.
RECURSIVE transform_items(_, _, _)
transform_items(self, items, out) ==
  IF items = << >> THEN out
  ELSE LET to == key_mappings_get(self, Head(items)[1])
       IN transform_items(self, Tail(items),
                          IF to.none THEN out
                          ELSE dict_set(out, to.value, Head(items)[2]))

\* ArgumentMapper.transform_kwargs(kwargs)
transform_kwargs(self, kwargs) == transform_items(self, kwargs, << >>)

\* What a call that raised hands back.
Raised(error) ==
  [raised |-> error, called |-> FALSE, received |-> function(<< >>, << >>),
   returned |-> function(<< >>, << >>)]

\* ArgumentMapper.__call__(*args, **kwargs):
\* `return self.function(*args, **self.transform_kwargs(**kwargs))`.  The
\* keywords of the call are bound to the parameters of transform_kwargs, whose
\* only parameter is named kwargs: any other keyword, and no keyword at all,
\* is a TypeError; a keyword `kwargs` is transformed as a dict when it is one.
__call__(self, args, kwargs) ==
  IF Keys(kwargs) # {"kwargs"} THEN Raised("TypeError")
  ELSE IF ~Get(kwargs, "kwargs").dict THEN Raised("AttributeError")
  ELSE LET out == transform_kwargs(self, Get(kwargs, "kwargs").items)
       IN [raised |-> "none", called |-> TRUE, received |-> function(args, out),
           returned |-> function(args, out)]

ArgNames == {"foo", "bar", "kwargs"}
ArgValues ==
  { IntVal(1), DictVal(<<<<"foo", IntVal(2)>>>>),
    DictVal(<<<<"bar", IntVal(1)>>, <<"foo", IntVal(2)>>>>) }

\* The keyword arguments of a call: at most MaxKwargs of them, in the order
\* they are written.
KwargsOf(n) ==
  {d \in [1..n -> ArgNames \X ArgValues] :
     \A a, b \in 1..n : a # b => d[a][1] # d[b][1]}
Kwargs == UNION {KwargsOf(n) : n \in 0..MaxKwargs}

InitWrappers ==
  \E remove_keys \in {<< >>, <<"bar">>, <<"foo">>},
     key_mappings \in { << >>, <<<<"foo", Renamed("bar")>>>>,
                        <<<<"foo", Removed>>>>,
                        <<<<"foo", Renamed("bar")>>, <<"bar", Renamed("foo")>>>> } :
    /\ NoScorer
    /\ util = ArgumentMapper(remove_keys, key_mappings)
    /\ log = << >>
    /\ last = [op |-> "init", prev_type |-> "", raised |-> "none"]

\* The caller calls the mapper.
Call(args, kwargs) ==
  /\ LET r == __call__(util, args, kwargs)
     IN last' = [op |-> "__call__", prev_type |-> "", raised |-> r.raised,
                 args |-> args, kwargs |-> kwargs, called |-> r.called,
                 received |-> r.received, returned |-> r.returned]
  /\ UNCHANGED <<scorer, log, util>>

NextWrappers ==
  \E args \in {<< >>, <<IntVal(1)>>}, kwargs \in Kwargs : Call(args, kwargs)

SpecWrappers == InitWrappers /\ [][NextWrappers]_vars

\* ----------------------------------------- speechbrain.utils.importutils
\* self.lazy_module: None until the target is imported.
NotLoaded == [none |-> TRUE, value |-> ""]
Loaded(target) == [none |-> FALSE, value |-> target]

\* LazyModule.__init__ and DeprecatedModuleRedirect.__init__: the attributes
\* set on the module object.
LazyModule(name, target, package) ==
  [class |-> "LazyModule", name |-> name, target |-> target,
   lazy_module |-> NotLoaded, package |-> package, attrs |-> {"target", "lazy_module", "package"}]

DeprecatedModuleRedirect(old_import, new_import, package) ==
  [LazyModule(old_import, new_import, package) EXCEPT
     !.class = "DeprecatedModuleRedirect",
     !.attrs = @ \cup {"old_import", "extra_reason"}]

\* What _ensure_module hands back: the object, whether import_module was
\* called and whether it returned a module, the warnings emitted, the error.
Ensured(self, import_calls, imported, warnings, raised) ==
  [self |-> self, import_calls |-> import_calls, imported |-> imported,
   warnings |-> warnings, raised |-> raised]

\* A slip in LazyModule._ensure_module: no test of self.lazy_module.
LazyModule_ensure_module_always_imports(self, importable) ==
  IF importable
    THEN Ensured([self EXCEPT !.lazy_module = Loaded(self.target)], 1, 1, << >>, "none")
    ELSE Ensured(self, 1, 0, << >>, "ImportError")

\* LazyModule._ensure_module; importable is whether import_module finds the
\* target this time.
LazyModule_ensure_module(self, importable) ==
  IF self.lazy_module = NotLoaded
    THEN IF importable
           THEN Ensured([self EXCEPT !.lazy_module = Loaded(self.target)],
                        1, 1, << >>, "none")
           ELSE Ensured(self, 1, 0, << >>, "ImportError")
    ELSE Ensured(self, 0, 0, << >>, "none")

\* DeprecatedModuleRedirect._ensure_module
DeprecatedModuleRedirect_ensure_module(self, importable) ==
  LET warnings == IF self.lazy_module = NotLoaded
                    THEN <<"deprecated_redirect">> ELSE << >>
      r == LazyModule_ensure_module(self, importable)
  IN [r EXCEPT !.warnings = warnings \o r.warnings]

\* self._ensure_module(), by the class of self.
_ensure_module(self, importable) ==
  IF self.class = "DeprecatedModuleRedirect"
    THEN DeprecatedModuleRedirect_ensure_module(self, importable)
    ELSE LazyModule_ensure_module(self, importable)

\* The attributes of the target module.
TargetAttrs == {"run"}

\* LazyModule.__getattr__(attr): getattr(self._ensure_module(), attr)
__getattr__(self, attr, importable) ==
  LET r == _ensure_module(self, importable)
  IN IF r.raised # "none" THEN r
     ELSE IF attr \in TargetAttrs THEN r
     ELSE [r EXCEPT !.raised = "AttributeError"]

\* module.attr: __getattr__ is called only for an attribute that the object
\* does not have itself.
getattr(self, attr, importable) ==
  IF attr \in self.attrs THEN Ensured(self, 0, 0, << >>, "none")
  ELSE __getattr__(self, attr, importable)

\* A lazy module or a redirect, newly made; nothing is imported yet.
InitImportutils ==
  \E self \in { LazyModule("pkg.lazy", "impl", "pkg"),
                 DeprecatedModuleRedirect("pkg.old", "impl", "pkg") } :
    /\ NoScorer
    /\ util = [self |-> self, accesses |-> 0, import_calls |-> 0, imported |-> 0]
    /\ log = << >>
    /\ last = [op |-> "init", prev_type |-> "", raised |-> "none"]

\* The caller reads an attribute of the module object.
GetAttr(attr, importable) ==
  /\ util.accesses < MaxAccesses
  /\ LET r == getattr(util.self, attr, importable)
     IN /\ util' = [self |-> r.self, accesses |-> util.accesses + 1,
                    import_calls |-> util.import_calls + r.import_calls,
                    imported |-> util.imported + r.imported]
        /\ log' = log \o r.warnings
        /\ last' = [op |-> "getattr", prev_type |-> "", raised |-> r.raised,
                    attr |-> attr]
  /\ UNCHANGED scorer

NextImportutils ==
  \E attr \in TargetAttrs \cup {"target", "old_import", "missing"},
     importable \in BOOLEAN :
    GetAttr(attr, importable)

SpecImportutils == InitImportutils /\ [][NextImportutils]_vars

\* ------------------------------------------------------ concurrent workers
\* Beam-search workers that call score and score_partial_token on instance 1
\* at the same time.  A call of score is taken one access to shared memory at
\* a time; between two of them any other worker may run.
Workers == {1, 2}

\* A worker between calls.
Idle(own) ==
  [pc |-> "idle", own |-> own, op |-> "", prev |-> 0, prev_ctx |-> << >>,
   word |-> << >>, is_last_word |-> FALSE, end_state |-> 0, raw_end |-> 0,
   lm_score |-> 0, score |-> 0]

\* One instance on the n-gram backend, and the start state every worker
\* begins from (address 1).
InitConcurrent ==
  \E sb \in BOOLEAN :
    LET self  == LanguageModel(CHOOSE b \in Backends : b.kind = "ngram",
                               Unigrams({Cat, Zzz}), DefaultAlpha, DefaultBeta,
                               DefaultUnkScoreOffset, sb)
        start == get_start_state(Mem(<< >>, 0), self.self)
    IN /\ lm = <<self.self>>
       /\ log = self.warnings
       /\ heap = start.mem.heap
       /\ queries = start.mem.queries
       /\ hyps = <<StartHyp(1, start.state)>>
       /\ last = [op |-> "get_start_state", prev_type |-> "", raised |-> "none"]
       /\ kenlm = ImportKenlm(TRUE).kenlm
       /\ calls = [w \in Workers |-> Idle({})]
       /\ util = << >>

\* How many calls of score have been started.
Started == Cardinality({a \in DOMAIN heap : a > 1 /\
                          \E w \in Workers : a \in calls[w].own \/ a = calls[w].end_state})
           + Cardinality({w \in Workers : calls[w].pc = "alloc"})

\* Worker w calls score on the start state or on a state it holds; prev_state
\* is a KenlmState, so the type check passes.
CallScore(w, prev, word, is_last_word) ==
  /\ calls[w].pc \in {"idle", "returned"}
  /\ Started < MaxCalls
  /\ prev \in {1} \cup calls[w].own
  /\ calls' = [calls EXCEPT ![w] =
                 [Idle(calls[w].own) EXCEPT
                    !.pc = "alloc", !.op = "score", !.prev = prev,
                    !.prev_ctx = heap[prev], !.word = word,
                    !.is_last_word = is_last_word]]
  /\ UNCHANGED <<lm, heap, queries, hyps, last, log, kenlm, util>>

\* end_state = _get_empty_lm_state()
StepAlloc(w) ==
  /\ calls[w].pc = "alloc"
  /\ LET m1 == _get_empty_lm_state(Mem(heap, queries))
     IN /\ heap' = m1.heap
        /\ calls' = [calls EXCEPT ![w].pc = "base", ![w].end_state = Len(m1.heap)]
  /\ UNCHANGED <<lm, queries, hyps, last, log, kenlm, util>>

\* lm_score = BaseScore(prev_state.state, word, end_state), and the offset.
StepBase(w) ==
  /\ calls[w].pc = "base"
  /\ LET c == calls[w]
         r == BaseScore(Mem(heap, queries), lm[1].kenlm_model, c.prev, c.word,
                        c.end_state)
         lm_score1 == IF IsOOV(lm[1], c.word)
                        THEN r.score + lm[1].unk_score_offset
                        ELSE r.score
     IN /\ heap' = r.mem.heap
        /\ queries' = r.mem.queries
        /\ calls' = [calls EXCEPT
                       ![w].lm_score = lm_score1,
                       ![w].pc = IF ~c.is_last_word THEN "return"
                                 ELSE IF lm[1].score_boundary THEN "end_alloc"
                                 ELSE "return"]
  /\ UNCHANGED <<lm, hyps, last, log, kenlm, util>>

\* _get_raw_end_score: end_state = _get_empty_lm_state()
StepEndAlloc(w) ==
  /\ calls[w].pc = "end_alloc"
  /\ LET m1 == _get_empty_lm_state(Mem(heap, queries))
     IN /\ heap' = m1.heap
        /\ calls' = [calls EXCEPT ![w].pc = "end_base", ![w].raw_end = Len(m1.heap)]
  /\ UNCHANGED <<lm, queries, hyps, last, log, kenlm, util>>

\* _get_raw_end_score: BaseScore(start_state, "</s>", end_state), added to
\* lm_score.
StepEndBase(w) ==
  /\ calls[w].pc = "end_base"
  /\ LET c == calls[w]
         r == BaseScore(Mem(heap, queries), lm[1].kenlm_model, c.end_state, EOS,
                        c.raw_end)
     IN /\ heap' = r.mem.heap
        /\ queries' = r.mem.queries
        /\ calls' = [calls EXCEPT ![w].lm_score = c.lm_score + r.score,
                                  ![w].pc = "return"]
  /\ UNCHANGED <<lm, hyps, last, log, kenlm, util>>

\* return alpha * lm_score / log10(e) + beta, KenlmState(end_state)
StepReturn(w) ==
  /\ calls[w].pc = "return"
  /\ calls' = [calls EXCEPT
                 ![w].score = Combine(lm[1].alpha, calls[w].lm_score, lm[1].beta),
                 ![w].own = @ \cup {calls[w].end_state},
                 ![w].pc = "returned"]
  /\ UNCHANGED <<lm, heap, queries, hyps, last, log, kenlm, util>>

\* Worker w calls score_partial_token; the call reads the instance only.
CallScorePartialToken(w, partial_token) ==
  /\ calls[w].pc \in {"idle", "returned"}
  /\ calls' = [calls EXCEPT ![w] =
                 [Idle(calls[w].own) EXCEPT
                    !.pc = "returned", !.op = "score_partial_token",
                    !.word = partial_token,
                    !.score = score_partial_token(lm[1], partial_token)]]
  /\ UNCHANGED <<lm, heap, queries, hyps, last, log, kenlm, util>>

NextConcurrent ==
  \/ \E w \in Workers, prev \in DOMAIN heap, word \in Words, f \in BOOLEAN :
       CallScore(w, prev, word, f)
  \/ \E w \in Workers : StepAlloc(w)
  \/ \E w \in Workers : StepBase(w)
  \/ \E w \in Workers : StepEndAlloc(w)
  \/ \E w \in Workers : StepEndBase(w)
  \/ \E w \in Workers : StepReturn(w)
  \/ \E w \in Workers, p \in {<<"c", "a">>, Zzz} : CallScorePartialToken(w, p)

SpecConcurrent == InitConcurrent /\ [][NextConcurrent]_vars

\* ----------------------------------------------------- reading the record
\* The hypotheses made by score, and those made by get_start_state.
Scored == {k \in DOMAIN hyps : hyps[k].parent # 0}
Starts == {k \in DOMAIN hyps : hyps[k].parent = 0}

\* The context held by the state of hypothesis k, and the scorer that made it.
CtxOf(k) == heap[hyps[k].state.state]
SelfOf(k) == lm[hyps[k].by]

\* The backend's score of the transition that made hypothesis k, and of the
\* end-of-sentence symbol after it.
BaseOf(k) == LogProb(SelfOf(k).kenlm_model, CtxOf(hyps[k].parent), hyps[k].word)
EosOf(k) == LogProb(SelfOf(k).kenlm_model, CtxOf(k), EOS)
EosTerm(k) ==
  IF hyps[k].is_last_word /\ SelfOf(k).score_boundary THEN EosOf(k) ELSE 0

\* The score of hypothesis k's call had no OOV offset been added, and what one
\* offset adds to a score.
Unadjusted(k) ==
  SelfOf(k).alpha * (BaseOf(k) + EosTerm(k)) * 10000 + SelfOf(k).beta * Log10E
OneOffset(k) == SelfOf(k).alpha * SelfOf(k).unk_score_offset * 10000

\* Hypotheses j and k come from the same call but for is_last_word: true for
\* j, false for k.
Twins(j, k) ==
  /\ hyps[j].by = hyps[k].by
  /\ hyps[j].parent = hyps[k].parent
  /\ hyps[j].word = hyps[k].word
  /\ hyps[j].is_last_word
  /\ ~hyps[k].is_last_word

\* The word of hypothesis k is outside a non-empty unigram set; it is unknown
\* to the backend.
OutsideUnigrams(k) ==
  SelfOf(k).unigram_set # {} /\ hyps[k].word \notin SelfOf(k).unigram_set
UnknownToBackend(k) == hyps[k].word \notin SelfOf(k).kenlm_model.vocab

\* ----------------------------------------------------------------- claims

\* C1: score(s, w, true) and score(s, w, false) hand back states with the
\* same content: the end-of-sentence adjustment leaves the returned state as
\* the word transition wrote it.
C1_BoundaryNonMutation ==
  \A j \in Scored, k \in Scored :
    Twins(j, k) =>
      /\ CtxOf(j) = CtxOf(k)
      /\ hyps[j].state.type = hyps[k].state.type

C1_Witness ==
  \E j \in Scored, k \in Scored :
    /\ Twins(j, k)
    /\ SelfOf(j).score_boundary
    /\ hyps[j].score # hyps[k].score
    /\ CtxOf(j) = CtxOf(k)

\* C2: every returned score is alpha * adjusted / log10(e) + beta, where
\* adjusted is the base score plus nothing or one OOV offset plus the
\* end-of-sentence score of a last word: alpha scales each component, beta is
\* added once, unscaled.
C2_FinalCombination ==
  \A k \in Scored :
    \E oov \in {0, SelfOf(k).unk_score_offset} :
      hyps[k].score =
        SelfOf(k).alpha * (BaseOf(k) + oov + EosTerm(k)) * 10000
          + SelfOf(k).beta * Log10E

C2_Witness ==
  \E k \in Scored :
    /\ hyps[k].is_last_word
    /\ SelfOf(k).score_boundary
    /\ SelfOf(k).kenlm_model.kind = "ngram"
    /\ SelfOf(k).beta # 0
    /\ hyps[k].score =
         SelfOf(k).alpha * (BaseOf(k) + SelfOf(k).unk_score_offset + EosOf(k)) * 10000
           + SelfOf(k).beta * Log10E

\* C3: the offset is added exactly when the word is outside a non-empty
\* unigram set or unknown to the backend, and the base score is left as it is
\* otherwise.
C3_OOVCondition ==
  \A k \in Scored :
    IF OutsideUnigrams(k) \/ UnknownToBackend(k)
      THEN hyps[k].score = Unadjusted(k) + OneOffset(k)
      ELSE hyps[k].score = Unadjusted(k)

C3_Witness ==
  \E k \in Scored :
    /\ SelfOf(k).unigram_set = {}
    /\ UnknownToBackend(k)
    /\ hyps[k].score = Unadjusted(k) + OneOffset(k)
    /\ OneOffset(k) # 0

\* C4 as stated: a word outside a non-empty unigram set never scores above
\* the unadjusted score.
C4_Original ==
  \A k \in Scored : OutsideUnigrams(k) => hyps[k].score <= Unadjusted(k)

\* C4 as amended: for a word outside a non-empty unigram set the offset is
\* added exactly once, also when the backend does not know the word either;
\* the score is at most the unadjusted score when alpha >= 0 and
\* unk_score_offset <= 0.
C4_OffsetOnce ==
  \A k \in Scored :
    OutsideUnigrams(k) =>
      /\ hyps[k].score = Unadjusted(k) + OneOffset(k)
      /\ (SelfOf(k).alpha >= 0 /\ SelfOf(k).unk_score_offset <= 0
            => hyps[k].score <= Unadjusted(k))

C4_Witness ==
  \E k \in Scored :
    /\ OutsideUnigrams(k)
    /\ UnknownToBackend(k)
    /\ SelfOf(k).alpha > 0
    /\ SelfOf(k).unk_score_offset < 0
    /\ hyps[k].score < Unadjusted(k)

\* The end-to-end scenario: a stub backend, alpha = 0.5, beta = 1.5,
\* unk_score_offset = -10.0, score_boundary = false, an empty unigram set, and
\* the call score(start, "cat", false).
Scenario(k) ==
  /\ SelfOf(k).kenlm_model.kind = "stub"
  /\ SelfOf(k).alpha = 1
  /\ SelfOf(k).beta = 3
  /\ SelfOf(k).unk_score_offset = -10
  /\ ~SelfOf(k).score_boundary
  /\ SelfOf(k).unigram_set = {}
  /\ hyps[k].parent \in Starts
  /\ hyps[k].word = Cat
  /\ ~hyps[k].is_last_word

\* 0.5 * (-2.0 + (-10.0)) / log10(e) + 1.5 and 0.5 * (-2.0) / log10(e) + 1.5
ScenarioWithOffset == 1 * (-2 + (-10)) * 10000 + 3 * Log10E
ScenarioWithoutOffset == 1 * (-2) * 10000 + 3 * Log10E

\* C5 as stated: in the scenario the result includes the OOV offset.
C5_Original ==
  \A k \in Scored : Scenario(k) => hyps[k].score = ScenarioWithOffset

\* C5 as amended: in the scenario the result includes the OOV offset when the
\* stub does not know "cat", and is 0.5 * (-2.0) / log10(e) + 1.5 when it does.
C5_Scenario ==
  \A k \in Scored :
    Scenario(k) =>
      hyps[k].score = IF Cat \in SelfOf(k).kenlm_model.vocab
                        THEN ScenarioWithoutOffset
                        ELSE ScenarioWithOffset

C5_Witness ==
  \E k \in Scored :
    /\ Scenario(k)
    /\ Cat \notin SelfOf(k).kenlm_model.vocab
    /\ hyps[k].score = ScenarioWithOffset

\* C6: a score call whose prev_state is no KenlmState ends in the
\* AssertionError of the type check, with no backend query, no state object
\* made and nothing handed back; the scorer, the backend and every state the
\* caller holds are as before, which is all a later call reads.
C6_WrongTypeFails ==
  [][last'.op = "score" /\ last'.prev_type # "KenlmState" =>
       /\ last'.raised = "AssertionError"
       /\ queries' = queries
       /\ heap' = heap
       /\ hyps' = hyps
       /\ lm' = lm]_vars

C6_Witness ==
  /\ last.op = "score"
  /\ last.prev_type = "kenlm.State"
  /\ last.raised = "AssertionError"
  /\ Scored # {}
  /\ queries > 0

\* C7 as stated: no state is scored by an instance other than the one that
\* produced it.
C7_Original ==
  \A k \in Scored : hyps[k].by = hyps[hyps[k].parent].by

\* C7 as amended: score does not look at which instance produced a state.  It
\* fails exactly when prev_state is no KenlmState; a KenlmState from
\* get_start_state or score of either instance is accepted, and the state
\* handed back holds the called instance's backend transition from it.
C7_TypeCheckOnly ==
  /\ last.op = "score" => (last.raised = "none" <=> last.prev_type = "KenlmState")
  /\ \A k \in Scored :
       /\ hyps[k].state.type = "KenlmState"
       /\ CtxOf(k) = NextContext(SelfOf(k).kenlm_model, CtxOf(hyps[k].parent),
                                 hyps[k].word)

C7_Witness ==
  \E k \in Scored :
    /\ hyps[k].parent \in Scored
    /\ hyps[k].by # hyps[hyps[k].parent].by
    /\ hyps[k].state.type = "KenlmState"
    /\ last.raised = "none"

\* C8: every start state is a KenlmState around a raw state of its own,
\* holding the begin-of-sentence context when score_boundary is true and the
\* null context when it is false.
C8_StartState ==
  /\ \A k \in Starts :
       /\ hyps[k].state.type = "KenlmState"
       /\ CtxOf(k) = IF SelfOf(k).score_boundary THEN <<BOS>> ELSE << >>
  /\ \A j \in Starts, k \in Starts :
       j # k => hyps[j].state.state # hyps[k].state.state

C8_Witness ==
  \E j \in Starts, k \in Starts :
    /\ j # k
    /\ hyps[j].by = hyps[k].by
    /\ ~SelfOf(j).score_boundary
    /\ CtxOf(j) = << >>
    /\ CtxOf(k) = << >>

\* C9: is_last_word adds the backend's end-of-sentence score, taken from the
\* state the word led to, when score_boundary is true, and adds nothing when
\* it is false: the two scores of one transition differ by exactly that.
C9_EndOfSentenceTerm ==
  \A j \in Scored, k \in Scored :
    Twins(j, k) =>
      hyps[j].score - hyps[k].score =
        SelfOf(j).alpha * 10000
          * (IF SelfOf(j).score_boundary THEN EosOf(j) ELSE 0)

C9_Witness ==
  \E j \in Scored, k \in Scored :
    /\ Twins(j, k)
    /\ SelfOf(j).score_boundary
    /\ SelfOf(j).kenlm_model.kind = "ngram"
    /\ hyps[j].score - hyps[k].score = SelfOf(j).alpha * 10000 * EosOf(j)
    /\ EosOf(j) # 0

\* C10: no call changes a state made earlier or a hypothesis that holds one,
\* and the states the caller holds are pairwise distinct objects.
C10_StatesNeverMutated ==
  [][/\ \A a \in DOMAIN heap : a \in DOMAIN heap' /\ heap'[a] = heap[a]
     /\ \A k \in DOMAIN hyps : k \in DOMAIN hyps' /\ hyps'[k] = hyps[k]
     /\ \A j \in DOMAIN hyps', k \in DOMAIN hyps' :
          j # k => hyps'[j].state.state # hyps'[k].state.state]_vars

C10_Witness ==
  \E j \in Scored, k \in Scored :
    /\ hyps[j].parent = hyps[k].parent
    /\ hyps[j].word # hyps[k].word
    /\ hyps[j].is_last_word
    /\ SelfOf(j).score_boundary
    /\ CtxOf(j) # CtxOf(k)
    /\ CtxOf(hyps[j].parent) = <<BOS>>

\* ------------------------------------------------ reading a partial score
\* The latest call was score_partial_token; its argument, and the unigrams
\* instance 1 retained.
PartialScored == last.op = "score_partial_token"
Retained == lm[1].unigram_set

\* Some retained unigram starts with p.
HasPrefix(p) == \E w \in Retained : IsPrefix(p, w)

\* The penalty of an unknown partial token p, over PartialLenLimit.
UnknownPenalty(p) ==
  IF Len(p) > 6 THEN lm[1].unk_score_offset * Len(p)
  ELSE lm[1].unk_score_offset * 6

Abs(x) == IF x < 0 THEN -x ELSE x

\* C11: score_partial_token returns 0 for a prefix of a retained unigram at
\* every length, unk_score_offset for any other token of at most 6
\* characters, and unk_score_offset * len / 6 for any other longer token.
C11_PartialTokenScore ==
  PartialScored =>
    last.score =
      IF HasPrefix(last.partial) THEN 0
      ELSE IF Len(last.partial) <= 6 THEN lm[1].unk_score_offset * 6
      ELSE lm[1].unk_score_offset * Len(last.partial)

C11_Witness ==
  /\ PartialScored
  /\ Retained # {}
  /\ ~HasPrefix(last.partial)
  /\ Len(last.partial) = 7
  /\ lm[1].unk_score_offset = -10
  /\ last.score = -70

\* C12: with an empty unigram set, whether no unigrams were passed, an empty
\* collection was, or none of the passed words is known to the backend, every
\* partial token gets the penalty of an unknown token.
C12_EmptyVocabularyAllUnknown ==
  PartialScored /\ Retained = {} => last.score = UnknownPenalty(last.partial)

C12_Witness ==
  /\ PartialScored
  /\ Retained = {}
  /\ ~lm[1].char_trie.present
  /\ last.partial = << >>
  /\ last.score = UnknownPenalty(<< >>)
  /\ last.score # 0

\* C13: with a trie built, a partial token counts as in-vocabulary exactly
\* when some retained unigram starts with it, a complete retained unigram
\* included.
C13_HasPrefix ==
  PartialScored /\ lm[1].char_trie.present =>
    (is_oov(lm[1], last.partial) = 0 <=> HasPrefix(last.partial))

C13_Witness ==
  /\ PartialScored
  /\ lm[1].char_trie.present
  /\ last.partial \in Retained
  /\ ~(\E w \in Retained : w # last.partial /\ IsPrefix(last.partial, w))
  /\ is_oov(lm[1], last.partial) = 0

\* C14: when a partial token counts as in-vocabulary, so does every strict
\* prefix of it.
C14_PrefixMonotonicity ==
  PartialScored /\ lm[1].char_trie.present /\ is_oov(lm[1], last.partial) = 0 =>
    \A n \in 0..(Len(last.partial) - 1) :
      is_oov(lm[1], SubSeq(last.partial, 1, n)) = 0

C14_Witness ==
  /\ PartialScored
  /\ lm[1].char_trie.present
  /\ last.partial = Abba
  /\ is_oov(lm[1], Abba) = 0
  /\ is_oov(lm[1], SubSeq(Abba, 1, 3)) = 0
  /\ SubSeq(Abba, 1, 3) \notin Retained

\* A partial token of more than 6 characters that no retained unigram starts
\* with.
LongOOV(p) == Len(p) > 6 /\ ~HasPrefix(p)

\* C15 as stated: among long OOV partial tokens a longer one always has a
\* penalty of strictly larger magnitude.
C15_Original ==
  PartialScored /\ LongOOV(last.partial) =>
    \A q \in Partials :
      LongOOV(q) /\ Len(q) > Len(last.partial) =>
        Abs(score_partial_token(lm[1], q)) > Abs(last.score)

\* C15 as amended: the same, for an unk_score_offset other than 0.
C15_LengthScaledPenalty ==
  PartialScored /\ LongOOV(last.partial) /\ lm[1].unk_score_offset # 0 =>
    \A q \in Partials :
      LongOOV(q) /\ Len(q) > Len(last.partial) =>
        Abs(score_partial_token(lm[1], q)) > Abs(last.score)

C15_Witness ==
  /\ PartialScored
  /\ LongOOV(last.partial)
  /\ Len(last.partial) = 7
  /\ lm[1].unk_score_offset = 5
  /\ \E q \in Partials :
       /\ LongOOV(q)
       /\ Len(q) = 8
       /\ Abs(score_partial_token(lm[1], q)) = 40
       /\ Abs(last.score) = 35

\* ------------------------------------------------- reading a construction
\* The latest call was the constructor, and it returned.
Built == last.op = "__init__" /\ last.raised = "none"
Offered == last.unigrams
Logged(warning) == \E n \in DOMAIN log : log[n] = warning

\* C16: the unigram set holds exactly the offered unigrams the backend knows:
\* every member was offered and is known to the backend, and every offered
\* word the backend knows is a member.
C16_FilterExact ==
  Built /\ Offered.given =>
    /\ \A w \in Retained : w \in Offered.words /\ InModel(lm[1].kenlm_model, w)
    /\ \A w \in Offered.words : InModel(lm[1].kenlm_model, w) => w \in Retained

C16_Witness ==
  /\ Built
  /\ Offered = Unigrams(Fillers(1000))
  /\ Retained = Fillers(500)
  /\ Filler(501) \notin Retained

\* C17: the mismatch warning is logged during construction exactly when the
\* offered list is not empty and fewer than a tenth of its entries are
\* retained; with w1 .. w10000 offered and w1 .. w500 known it is logged and
\* the unigram set has 500 members.
C17_MismatchDiagnostic ==
  Built =>
    /\ Logged("vocabulary_mismatch") <=>
         /\ Offered.given
         /\ Offered.len # 0
         /\ 10 * Cardinality(Retained) < Offered.len
    /\ Offered = Unigrams(Fillers(10000)) =>
         Logged("vocabulary_mismatch") /\ Cardinality(Retained) = 500

C17_Witness ==
  /\ Built
  /\ Offered.len = 10000
  /\ Cardinality(Offered.words) = 10000
  /\ Cardinality(Offered.words \cap lm[1].kenlm_model.vocab) = 500
  /\ Cardinality(Retained) = 500
  /\ log = <<"vocabulary_mismatch">>

\* C18: when a list is offered, the small-vocabulary warning is logged exactly
\* when the list has fewer than 1000 entries, however many of them are
\* retained, and the unigram set is built all the same.
C18_SmallVocabularyDiagnostic ==
  Built /\ Offered.given =>
    /\ Logged("small_vocabulary") <=> Offered.len < 1000
    /\ lm[1].char_trie.present
    /\ Retained = {w \in Offered.words : InModel(lm[1].kenlm_model, w)}

C18_Witness ==
  /\ Built
  /\ Offered.len = 999
  /\ Logged("small_vocabulary")
  /\ Cardinality(Retained) = 500

\* C19 as stated: when the offered vocabulary is empty (none passed, or an
\* empty list), the unigram set is empty and a warning of its own, neither the
\* small-vocabulary nor the mismatch one, is logged.
C19_Original ==
  Built /\ Offered.len = 0 =>
    /\ Retained = {}
    /\ \E n \in DOMAIN log :
         log[n] \notin {"small_vocabulary", "vocabulary_mismatch"}

\* C19 as amended: the unigram set is empty in both cases; the warning of its
\* own is logged, alone, when no unigrams are passed, and an empty list gets
\* the small-vocabulary warning alone.
C19_EmptyVocabularyDiagnostic ==
  Built /\ Offered.len = 0 =>
    /\ Retained = {}
    /\ log = IF Offered.given THEN <<"small_vocabulary">> ELSE <<"no_unigrams">>

C19_Witness ==
  /\ Built
  /\ Offered = Unigrams({})
  /\ Retained = {}
  /\ lm[1].char_trie.present
  /\ log = <<"small_vocabulary">>

\* The latest call is one the caller made on the instance with a state the
\* instance handed out, or with a partial token.
Answered ==
  \/ last.op \in {"get_start_state", "score_partial_token"}
  \/ last.op = "score" /\ last.prev_type = "KenlmState"

\* C20: no warning ends the construction: whatever vocabulary is offered the
\* constructor returns an instance, and get_start_state, score and
\* score_partial_token on it return.
C20_DiagnosticsNotRaised ==
  /\ last.op = "__init__" => last.raised = "none" /\ DOMAIN lm = {1}
  /\ Answered => last.raised = "none"

C20_Witness ==
  /\ log = <<"small_vocabulary", "vocabulary_mismatch">>
  /\ last.op = "score_partial_token"
  /\ last.raised = "none"
  /\ \E j, k \in DOMAIN hyps :
       /\ hyps[j].parent = 0
       /\ hyps[k].parent = j
       /\ hyps[k].word = Cat

\* --------------------------------------------------- an unavailable backend
\* C21: with kenlm not installed the constructor fails, so that no instance
\* exists afterwards, and no get_start_state or score call is where the
\* missing backend first shows as an error.
C21_Original ==
  kenlm = "unbound" =>
    /\ last.op = "__init__" => last.raised # "none"
    /\ DOMAIN lm = {}
    /\ last.op \in {"get_start_state", "score"} =>
         last.raised \notin {"NameError", "ValueError"}

\* What happens instead: the constructor has returned an instance and
\* get_start_state on it ends with NameError.
C21_LateFailure ==
  /\ kenlm = "unbound"
  /\ DOMAIN lm = {1}
  /\ last.op = "get_start_state"
  /\ last.raised = "NameError"
  /\ log = <<"kenlm_not_installed", "no_unigrams">>

\* ------------------------------------------------------------ immutability
\* C22: once the instance is built, no call of get_start_state, score or
\* score_partial_token, returning or raising, changes its unigram set, trie,
\* alpha, beta, unk_score_offset or score_boundary, and so every partial token
\* scores after the call what it scored before it.
C22_ImmutableAfterConstruction ==
  [][DOMAIN lm = {1} =>
       /\ lm' = lm
       /\ \A p \in BuildPartials :
            score_partial_token(lm'[1], p) = score_partial_token(lm[1], p)]_vars

C22_Witness ==
  /\ DOMAIN lm = {1}
  /\ lm[1].unigram_set = {Cat, Ab}
  /\ lm[1].char_trie.keys = {Cat, Ab}
  /\ last.op = "score"
  /\ last.raised = "AssertionError"
  /\ \E k \in DOMAIN hyps : hyps[k].parent # 0 /\ hyps[k].word = Dog

\* ------------------------------------------------------------- concurrency
\* What the call worker w has returned from gives when it runs alone, on a
\* memory that holds nothing but the state it was passed.
Alone(w) ==
  score(Mem(<<calls[w].prev_ctx>>, 0), lm[1], KenlmState(1), calls[w].word,
        calls[w].is_last_word)

\* C23: whatever the interleaving, a call of score returns the score and the
\* new state it returns when run alone, and a call of score_partial_token the
\* value it returns when run alone.
C23_ConcurrentCallsAsAlone ==
  \A w \in DOMAIN calls :
    calls[w].pc = "returned" =>
      IF calls[w].op = "score"
        THEN /\ calls[w].score = Alone(w).score
             /\ heap[calls[w].end_state] = Alone(w).mem.heap[Alone(w).state.state]
        ELSE calls[w].score = score_partial_token(lm[1], calls[w].word)

\* Two calls on the same start state, one with and one without the boundary
\* score, whose allocations alternate.
C23_Witness ==
  /\ calls[1].pc = "returned" /\ calls[1].op = "score"
  /\ calls[2].pc = "returned" /\ calls[2].op = "score"
  /\ calls[1].prev = 1 /\ calls[2].prev = 1
  /\ calls[1].word = Cat /\ calls[2].word = Dog
  /\ calls[1].is_last_word /\ ~calls[2].is_last_word
  /\ lm[1].score_boundary
  /\ calls[1].end_state < calls[2].end_state
  /\ calls[2].end_state < calls[1].raw_end

\* ------------------------------------------------------------- determinism
\* Hypotheses j and k come from two calls score(s, w, false) with the same s
\* and w on the same scorer.
SameCall(j, k) ==
  /\ hyps[j].by = hyps[k].by
  /\ hyps[j].parent = hyps[k].parent
  /\ hyps[j].word = hyps[k].word
  /\ ~hyps[j].is_last_word
  /\ ~hyps[k].is_last_word

\* C24: two calls score(s, w, false) with the same s and w return the same
\* score and states of equal content, whatever was called between them.
C24_Determinism ==
  \A j \in Scored, k \in Scored :
    SameCall(j, k) => hyps[j].score = hyps[k].score /\ CtxOf(j) = CtxOf(k)

\* The same call twice, and between the two a call with another word and the
\* boundary score on the same state.
C24_Witness ==
  \E j \in Scored :
    /\ j + 2 \in Scored
    /\ SameCall(j, j + 2)
    /\ hyps[j + 1].parent = hyps[j].parent
    /\ hyps[j + 1].word # hyps[j].word
    /\ hyps[j + 1].is_last_word
    /\ hyps[j].state.state # hyps[j + 2].state.state

\* ------------------------------------------------- extending a hypothesis
\* The words scored on the way from a start state to hypothesis k, and the
\* context that scoring them one by one leaves, whatever the flags were.
RECURSIVE WordsTo(_)
WordsTo(k) ==
  IF hyps[k].parent = 0 THEN << >>
  ELSE Append(WordsTo(hyps[k].parent), hyps[k].word)

RECURSIVE Replay(_, _, _)
Replay(kenlm_model, ctx, ws) ==
  IF ws = << >> THEN ctx
  ELSE Replay(kenlm_model, NextContext(kenlm_model, ctx, Head(ws)), Tail(ws))

StartCtx(self) == IF self.score_boundary THEN <<BOS>> ELSE << >>
PathCtx(k) == Replay(SelfOf(k).kenlm_model, StartCtx(SelfOf(k)), WordsTo(k))

\* The score of word w with flag f after the words ws, from the words alone.
PathScore(self, ws, w, f) ==
  LET ctx == Replay(self.kenlm_model, StartCtx(self), ws)
      eos == IF f /\ self.score_boundary
               THEN LogProb(self.kenlm_model, NextContext(self.kenlm_model, ctx, w), EOS)
               ELSE 0
      off == IF IsOOV(self, w) THEN self.unk_score_offset ELSE 0
  IN Combine(self.alpha, LogProb(self.kenlm_model, ctx, w) + off + eos, self.beta)

\* C25: the state reached after a sequence of words, and the score of each
\* word, are those the words alone determine: the is_last_word flags of the
\* earlier calls of the sequence have no part in them.
C25_ExtendAfterBoundary ==
  \A k \in Scored :
    /\ CtxOf(k) = PathCtx(k)
    /\ hyps[k].score = PathScore(SelfOf(k), WordsTo(hyps[k].parent), hyps[k].word,
                                 hyps[k].is_last_word)

\* A word scored as the last one, then extended by two more words.
C25_Witness ==
  \E j \in Scored, k \in Scored, n \in Scored :
    /\ hyps[k].parent = j
    /\ hyps[n].parent = k
    /\ hyps[j].is_last_word
    /\ hyps[k].is_last_word
    /\ ~hyps[n].is_last_word
    /\ SelfOf(j).score_boundary
    /\ Len(WordsTo(n)) = 3
    /\ CtxOf(k) # CtxOf(j)

\* ---------------------------------------------------- OOV and the backend
\* C26: with an empty unigram set the backend alone decides: a word it knows
\* gets no offset, a word it does not know gets the offset once.
C26_EmptySetBackendDecides ==
  \A k \in Scored :
    SelfOf(k).unigram_set = {} =>
      hyps[k].score = IF UnknownToBackend(k) THEN Unadjusted(k) + OneOffset(k)
                      ELSE Unadjusted(k)

\* With no unigrams passed, on the n-gram backend: a known word without the
\* offset and an unknown one with it.
C26_Witness ==
  \E j \in Scored, k \in Scored :
    /\ hyps[j].by = hyps[k].by
    /\ SelfOf(j).unigram_set = {}
    /\ ~SelfOf(j).char_trie.present
    /\ ~UnknownToBackend(j)
    /\ hyps[j].score = Unadjusted(j)
    /\ UnknownToBackend(k)
    /\ hyps[k].score = Unadjusted(k) + OneOffset(k)
    /\ OneOffset(k) # 0

\* C27: a word of a non-empty unigram set is scored without the offset:
\* alpha * (base + end-of-sentence term) / log10(e) + beta.
C27_MemberNeverOOV ==
  \A k \in Scored :
    hyps[k].word \in SelfOf(k).unigram_set => hyps[k].score = Unadjusted(k)

C27_Witness ==
  \E k \in Scored :
    /\ hyps[k].word \in SelfOf(k).unigram_set
    /\ hyps[k].is_last_word
    /\ SelfOf(k).score_boundary
    /\ OneOffset(k) # 0
    /\ hyps[k].score = Unadjusted(k)

\* ------------------------------------------------------------- DCTConfig
\* C28: is_infinite_left_context returns true exactly when left_context_size
\* is None, and false for every finite left_context_size, 0 included.
C28_Original ==
  last.op = "is_infinite_left_context" =>
    (last.returned <=> util.left_context_size = None)

\* What happens instead: false for None, true for 0.
C28_Inverted ==
  /\ last.op = "is_infinite_left_context"
  /\ \/ util.left_context_size = None /\ ~last.returned
     \/ util.left_context_size = Some(0) /\ last.returned

\* -------------------------------------------------------- ArgumentMapper
\* The keyword arguments the wrapped function is to get for the keywords kw of
\* a call: each one under its own name when it has no mapping, under the new
\* name when it is renamed, and not at all when it is removed.
Forwarded(self, kw) ==
  {<<key_mappings_get(self, kw[n][1]).value, kw[n][2]>> :
     n \in {a \in DOMAIN kw : ~key_mappings_get(self, kw[a][1]).none}}

\* C29: a call of the mapper passes the positional arguments on unchanged,
\* passes each keyword argument on as it is, renamed, or not at all, and
\* returns what the wrapped function returns.
C29_Original ==
  last.op = "__call__" =>
    /\ last.raised = "none"
    /\ last.called
    /\ last.received.args = last.args
    /\ {last.received.kwargs[n] : n \in DOMAIN last.received.kwargs}
         = Forwarded(util, last.kwargs)
    /\ last.returned = function(last.received.args, last.received.kwargs)

\* What happens instead: the call with foo = 1 and foo renamed to bar ends
\* with TypeError before the function is called.
C29_TypeError ==
  /\ last.op = "__call__"
  /\ last.kwargs = <<<<"foo", IntVal(1)>>>>
  /\ key_mappings_get(util, "foo") = Renamed("bar")
  /\ last.raised = "TypeError"
  /\ ~last.called

\* ------------------------------------------------------------ lazy modules
IsLoaded == util.self.lazy_module # NotLoaded

IsRedirect == util.self.class = "DeprecatedModuleRedirect"
\* The access just made was of an attribute the object does not have itself.
NeedsTarget == last'.attr \notin util.self.attrs

\* C30: nothing is imported when the object is made; an access imports
\* exactly when it needs the target and the target is not loaded, and once an
\* import has succeeded no later access imports. A LazyModule never warns; a
\* redirect warns exactly on the accesses that need the target while it is
\* not loaded, so once in all when the first import succeeds.
C30_LazyImportOnce ==
  [][/\ last.op = "init" => util.import_calls = 0 /\ ~IsLoaded /\ log = << >>
     /\ util'.import_calls > util.import_calls => ~IsLoaded /\ NeedsTarget
     /\ IsLoaded => util'.import_calls = util.import_calls /\ util'.self = util.self
     /\ ~IsLoaded /\ NeedsTarget => util'.import_calls = util.import_calls + 1
     /\ util'.imported <= 1
     /\ ~IsRedirect => log' = log
     /\ log' # log => ~IsLoaded /\ NeedsTarget
     /\ IsRedirect /\ ~IsLoaded /\ NeedsTarget => Len(log') = Len(log) + 1
     /\ IsRedirect /\ util'.import_calls = 1 /\ util'.imported = 1 =>
          Len(log') = 1]_vars

\* A redirect whose first import succeeded, with one warning, and a later
\* access served by the loaded module.
C30_Witness ==
  /\ IsRedirect
  /\ util.accesses = MaxAccesses
  /\ util.import_calls = 1
  /\ util.imported = 1
  /\ IsLoaded
  /\ Len(log) = 1
  /\ last.op = "getattr" /\ last.attr = "run" /\ last.raised = "none"

====
